---- MODULE Spec2Model ----
(***************************************************************************)
(* Model of the limit order book of src/src/ob.rs (struct OrderBook).      *)
(*                                                                         *)
(* The book is a grid of MAX_SIZE price levels.  Each level is a FIFO      *)
(* queue of entries <<size, id>>.  Two cursors, bid and ask, are moved by  *)
(* open and repaired by check_ask_bid.                                     *)
(*                                                                         *)
(* Prices are integers counting 1/PriceUnit of a cent, so the quantization *)
(* (price * 100.0) as usize is a truncating division and several prices    *)
(* share one level.  Negative prices are not drawn.  Sizes are integers    *)
(* counting lots, so relative_eq!(sz, 0.0) is sz = 0.                      *)
(*                                                                         *)
(* A panic (the assert! of open, an arithmetic overflow in a build with    *)
(* overflow checks, an index out of bounds) ends the run: res = "Panic",   *)
(* the fields keep the values they had when the panic was raised, and no   *)
(* further call is made.                                                   *)
(*                                                                         *)
(* The field _match, written by a full fill and read only by __match(),    *)
(* takes no part in any operation's control flow and is not modelled.      *)
(***************************************************************************)
EXTENDS Integers, Sequences, FiniteSets, TLC

\* ---------------------------------------------------------------- bounds
\* Largest number of records (bids and asks together) in one snapshot of
\* SpecReload.
MaxSnap == 3

\* Largest number of entries resting in the book when open is called.
MaxOrders == 2
\* Longest bids list and longest asks list handed to reload.
MaxReload == 1

\* ------------------------------------------------------------- constants
\* Number of price levels of the grid (super::MAX_SIZE), scaled down.
MAX_SIZE == 3
\* std::usize::MAX, scaled down to an 8-bit word.
USIZE_MAX == 255
\* std::usize::MIN.
USIZE_MIN == 0
\* Uuid::nil().
NIL == 0
\* Sub-cent steps per grid index: the price p stands for p / (100 * PriceUnit).
PriceUnit == 2

Levels == 0..(MAX_SIZE - 1)
Sides == {"Buy", "Sell"}
\* A price of level i: at the start of the level's price step for an even i,
\* inside the step for an odd i.  PriceOf(MAX_SIZE) is past the grid.
PriceOf(i) == i * PriceUnit + (i % PriceUnit)
\* Prices handed to the calls: one price for every level, a second price of
\* level 0, and one price past the end of the grid.
Prices == {PriceOf(i) : i \in 0..MAX_SIZE} \cup {PriceUnit - 1}
Sizes == {1, 2}
Ids == {NIL, 1, 2}

VARIABLES
    book,   \* self.book: level index -> queue of <<size, id>>
    bid,    \* self.bid
    ask,    \* self.ask
    op,     \* name of the last call
    res,    \* what the last call returned
    eff     \* what the last call did: changed a queue, moved a cursor

vars == <<book, bid, ask, op, res, eff>>

\* The OrderBook value as a record.
OB == [book |-> book, bid |-> bid, ask |-> ask]

\* ------------------------------------------------------------ operators
RECURSIVE SumLen(_, _)
SumLen(b, n) == IF n = 0 THEN 0 ELSE Len(b[n - 1]) + SumLen(b, n - 1)

\* Number of entries resting in the whole grid.
Resting(b) == SumLen(b, MAX_SIZE)

\* OrderBook::new
New ==
    [book |-> [i \in Levels |-> <<>>],
     bid |-> USIZE_MIN,
     ask |-> USIZE_MAX]

\* get_idx with the bound test off by one: index MAX_SIZE is let through.
get_idx_off_by_one(price) ==
    LET p_idx == price \div PriceUnit
    IN  IF p_idx > MAX_SIZE THEN [err |-> TRUE, idx |-> p_idx]
        ELSE [err |-> FALSE, idx |-> p_idx]

\* OrderBook::get_idx: err stands for Err(Error::Range).
get_idx(price) ==
    LET p_idx == price \div PriceUnit
    IN  IF p_idx >= MAX_SIZE THEN [err |-> TRUE, idx |-> p_idx]
        ELSE [err |-> FALSE, idx |-> p_idx]

\* relative_eq!(a, b) on whole lots.
relative_eq(a, b) == a = b

\* Whether self.book[i] is inside the vector; reading outside it panics.
InGrid(i) == i \in Levels

\* usize arithmetic without overflow checks.
Wrap(n) == n % (USIZE_MAX + 1)

\* ScanBid with the while loop turned into an if: one step down at most.
ScanBid_one_step(b, cur, overflow_checks) ==
    IF ~InGrid(cur) THEN [bid |-> cur, panic |-> TRUE]
    ELSE IF Len(b[cur]) = 0
         THEN IF cur = USIZE_MIN /\ overflow_checks
              THEN [bid |-> cur, panic |-> TRUE]
              ELSE [bid |-> Wrap(cur - 1), panic |-> FALSE]
         ELSE [bid |-> cur, panic |-> FALSE]

\* The bid loop of check_ask_bid from cursor cur.  overflow_checks is the
\* build's setting: with it 0 - 1 panics; without it 0 - 1 wraps to
\* USIZE_MAX and the next read of self.book[self.bid] panics.
RECURSIVE ScanBid(_, _, _)
ScanBid(b, cur, overflow_checks) ==
    IF ~InGrid(cur) THEN [bid |-> cur, panic |-> TRUE]
    ELSE IF Len(b[cur]) = 0
         THEN IF cur = USIZE_MIN /\ overflow_checks
              THEN [bid |-> cur, panic |-> TRUE]
              ELSE ScanBid(b, Wrap(cur - 1), overflow_checks)
         ELSE [bid |-> cur, panic |-> FALSE]

\* The ask loop of check_ask_bid from cursor cur.
RECURSIVE ScanAsk(_, _, _)
ScanAsk(b, cur, overflow_checks) ==
    IF ~InGrid(cur) THEN [ask |-> cur, panic |-> TRUE]
    ELSE IF Len(b[cur]) = 0
         THEN IF cur = USIZE_MAX /\ overflow_checks
              THEN [ask |-> cur, panic |-> TRUE]
              ELSE ScanAsk(b, Wrap(cur + 1), overflow_checks)
         ELSE [ask |-> cur, panic |-> FALSE]

\* check_ask_bid that repairs nothing.
check_ask_bid_stale(ob, p_idx, overflow_checks) == [ob |-> ob, res |-> "Ok"]

\* OrderBook::check_ask_bid
check_ask_bid(ob, p_idx, overflow_checks) ==
    LET sb == IF p_idx = ob.bid
              THEN ScanBid(ob.book, ob.bid, overflow_checks)
              ELSE [bid |-> ob.bid, panic |-> FALSE]
        ob1 == [ob EXCEPT !.bid = sb.bid]
        sa == IF p_idx = ob1.ask
              THEN ScanAsk(ob1.book, ob1.ask, overflow_checks)
              ELSE [ask |-> ob1.ask, panic |-> FALSE]
    IN  IF sb.panic THEN [ob |-> ob1, res |-> "Panic"]
        ELSE IF sa.panic THEN [ob |-> [ob1 EXCEPT !.ask = sa.ask], res |-> "Panic"]
        ELSE [ob |-> [ob1 EXCEPT !.ask = sa.ask], res |-> "Ok"]

\* open without the assert!(self.bid < self.ask).
open_no_assert(ob, side, rec) ==
    LET g == get_idx(rec.price)
        p_idx == g.idx
        ob1 == IF side = "Buy" /\ p_idx > ob.bid THEN [ob EXCEPT !.bid = p_idx]
               ELSE IF side = "Sell" /\ p_idx < ob.ask THEN [ob EXCEPT !.ask = p_idx]
               ELSE ob
    IN  IF g.err THEN [ob |-> ob, res |-> "Range"]
        ELSE [ob |-> [ob1 EXCEPT !.book[p_idx] = Append(@, <<rec.size, rec.id>>)],
              res |-> "Ok"]

\* open with push_front in place of push_back.
open_push_front(ob, side, rec) ==
    LET g == get_idx(rec.price)
        p_idx == g.idx
        ob1 == IF side = "Buy" /\ p_idx > ob.bid THEN [ob EXCEPT !.bid = p_idx]
               ELSE IF side = "Sell" /\ p_idx < ob.ask THEN [ob EXCEPT !.ask = p_idx]
               ELSE ob
    IN  IF g.err THEN [ob |-> ob, res |-> "Range"]
        ELSE IF ~(ob1.bid < ob1.ask) THEN [ob |-> ob1, res |-> "Panic"]
        ELSE [ob |-> [ob1 EXCEPT !.book[p_idx] = <<<<rec.size, rec.id>>>> \o @],
              res |-> "Ok"]

\* open that never moves a cursor.
open_no_cursor_update(ob, side, rec) ==
    LET g == get_idx(rec.price)
        p_idx == g.idx
    IN  IF g.err THEN [ob |-> ob, res |-> "Range"]
        ELSE IF ~(ob.bid < ob.ask) THEN [ob |-> ob, res |-> "Panic"]
        ELSE [ob |-> [ob EXCEPT !.book[p_idx] = Append(@, <<rec.size, rec.id>>)],
              res |-> "Ok"]

\* OrderBook::open
open(ob, side, rec) ==
    LET g == get_idx(rec.price)
        p_idx == g.idx
        ob1 == IF side = "Buy" /\ p_idx > ob.bid THEN [ob EXCEPT !.bid = p_idx]
               ELSE IF side = "Sell" /\ p_idx < ob.ask THEN [ob EXCEPT !.ask = p_idx]
               ELSE ob
    IN  IF g.err THEN [ob |-> ob, res |-> "Range"]
        ELSE IF ~(ob1.bid < ob1.ask) THEN [ob |-> ob1, res |-> "Panic"]
        ELSE [ob |-> [ob1 EXCEPT !.book[p_idx] = Append(@, <<rec.size, rec.id>>)],
              res |-> "Ok"]

\* _match that looks for id anywhere in the queue, not only at its head.
_match_any_position(ob, price, size, id, overflow_checks) ==
    LET g == get_idx(price)
        p_idx == g.idx
    IN  IF g.err THEN [ob |-> ob, res |-> "Range"]
        ELSE IF \A k \in 1..Len(ob.book[p_idx]) : id # ob.book[p_idx][k][2]
        THEN [ob |-> ob, res |-> "MatchUuid"]
        ELSE LET sz == ob.book[p_idx][1][1] - size
             IN  IF relative_eq(sz, 0)
                 THEN check_ask_bid([ob EXCEPT !.book[p_idx] = Tail(@)],
                                    p_idx, overflow_checks)
                 ELSE [ob |-> ob, res |-> "Ok"]

\* OrderBook::_match
_match(ob, price, size, id, overflow_checks) ==
    LET g == get_idx(price)
        p_idx == g.idx
    IN  IF g.err THEN [ob |-> ob, res |-> "Range"]
        ELSE IF Len(ob.book[p_idx]) = 0 \/ id # ob.book[p_idx][1][2]
        THEN [ob |-> ob, res |-> "MatchUuid"]
        ELSE LET sz == ob.book[p_idx][1][1] - size
             IN  IF relative_eq(sz, 0)
                 THEN check_ask_bid([ob EXCEPT !.book[p_idx] = Tail(@)],
                                    p_idx, overflow_checks)
                 ELSE [ob |-> ob, res |-> "Ok"]

\* OrderBook::test_match: Ok(true) is "OkTrue", Ok(false) is "OkFalse".
test_match(ob, price, overflow_checks) ==
    LET g == get_idx(price)
        p_idx == g.idx
    IN  IF g.err THEN [ob |-> ob, res |-> "Range"]
        ELSE IF Len(ob.book[p_idx]) = 0 THEN [ob |-> ob, res |-> "MatchUuid"]
        ELSE IF NIL # ob.book[p_idx][1][2] THEN [ob |-> ob, res |-> "OkFalse"]
        ELSE LET r == check_ask_bid([ob EXCEPT !.book[p_idx] = Tail(@)],
                                    p_idx, overflow_checks)
             IN  IF r.res = "Panic" THEN r ELSE [ob |-> r.ob, res |-> "OkTrue"]

\* A retain that drops the whole queue as soon as one entry carries id.
Retain_clear(q, id) ==
    IF \E k \in 1..Len(q) : q[k][2] = id THEN <<>> ELSE q

\* VecDeque::retain(|&(_, it_id)| it_id != id)
Retain(q, id) == SelectSeq(q, LAMBDA e : e[2] # id)

\* OrderBook::done
done(ob, price, id, overflow_checks) ==
    LET g == get_idx(price)
        p_idx == g.idx
    IN  IF g.err THEN [ob |-> ob, res |-> "Range"]
        ELSE check_ask_bid([ob EXCEPT !.book[p_idx] = Retain(@, id)],
                           p_idx, overflow_checks)

\* A resize that takes the entry out and queues it again at the tail.
Resize_requeue(q, new_size, id) ==
    IF \E k \in 1..Len(q) : q[k][2] = id
    THEN Append(SelectSeq(q, LAMBDA e : e[2] # id), <<new_size, id>>)
    ELSE q

\* The for_each closure of change: overwrite the size of every entry with id.
Resize(q, new_size, id) ==
    [k \in 1..Len(q) |-> IF q[k][2] = id THEN <<new_size, id>> ELSE q[k]]

\* OrderBook::change.  done(..).unwrap_or_default() drops done's Result; a
\* panic inside done still unwinds through change.
change(ob, price, new_size, id, overflow_checks) ==
    LET g == get_idx(price)
        p_idx == g.idx
    IN  IF g.err THEN [ob |-> ob, res |-> "Range"]
        ELSE IF new_size = 0
        THEN LET r == done(ob, price, id, overflow_checks)
             IN  IF r.res = "Panic" THEN r ELSE [ob |-> r.ob, res |-> "Ok"]
        ELSE [ob |-> [ob EXCEPT !.book[p_idx] = Resize(@, new_size, id)],
              res |-> "Ok"]

\* try_for_each(|rec| self.open(side, rec)): stops at the first record whose
\* open does not return Ok.
RECURSIVE try_for_each(_, _, _)
try_for_each(ob, side, recs) ==
    IF recs = <<>> THEN [ob |-> ob, res |-> "Ok"]
    ELSE LET r == open(ob, side, Head(recs))
         IN  IF r.res # "Ok" THEN r ELSE try_for_each(r.ob, side, Tail(recs))

\* A reload that resets the two cursors but leaves the queues as they are.
reload_keep_book(ob, bids, asks) ==
    LET ob0 == [ob EXCEPT !.bid = USIZE_MIN, !.ask = USIZE_MAX]
        rb == try_for_each(ob0, "Buy", bids)
    IN  IF rb.res # "Ok" THEN rb ELSE try_for_each(rb.ob, "Sell", asks)

\* OrderBook::reload
reload(ob, bids, asks) ==
    LET ob0 == [ob EXCEPT !.bid = USIZE_MIN, !.ask = USIZE_MAX,
                          !.book = [i \in Levels |-> <<>>]]
        rb == try_for_each(ob0, "Buy", bids)
    IN  IF rb.res # "Ok" THEN rb ELSE try_for_each(rb.ob, "Sell", asks)

\* --------------------------------------------------------------- inputs
Records == [price : Prices, size : Sizes, id : Ids]

\* Snapshot records: bids at the lowest level, asks at the highest level,
\* and on either side a record past the end of the grid.
BidRecords ==
    {r \in Records : r.size = 1 /\ r.id = 1 /\
        r.price \in {PriceUnit - 1, PriceOf(MAX_SIZE)}}

AskRecords ==
    {r \in Records : r.size = 1 /\ r.id = 2 /\
        r.price \in {PriceOf(MAX_SIZE - 1), PriceOf(MAX_SIZE)}}

Lists(S) == UNION {[1..n -> S] : n \in 0..MaxReload}

\* The bids lists and the asks lists handed to reload.
BidLists == Lists(BidRecords)
AskLists == Lists(AskRecords)

\* The build's overflow-checks setting: on (debug profile) or off (release).
OverflowChecks == BOOLEAN

\* ---------------------------------------------------------- state machine
Init ==
    /\ book = New.book
    /\ bid = New.bid
    /\ ask = New.ask
    /\ op = "new"
    /\ res = "Ok"
    /\ eff = [queue |-> FALSE, cursor |-> FALSE]

\* The caller sees r: the book takes r.ob, the call returns r.res.
Return(r) ==
    /\ book' = r.ob.book
    /\ bid' = r.ob.bid
    /\ ask' = r.ob.ask
    /\ res' = r.res
    /\ eff' = [queue |-> r.ob.book # book,
               cursor |-> r.ob.bid # bid \/ r.ob.ask # ask]

\* No call follows a panic.
Running == res # "Panic"

Open ==
    /\ Running
    /\ Resting(book) < MaxOrders
    /\ op' = "open"
    /\ \E side \in Sides, rec \in Records : Return(open(OB, side, rec))

Match ==
    /\ Running
    /\ op' = "match"
    /\ \E price \in Prices, size \in Sizes, id \in Ids :
        \E r \in {_match(OB, price, size, id, oc) : oc \in OverflowChecks} : Return(r)

TestMatch ==
    /\ Running
    /\ op' = "test_match"
    /\ \E price \in Prices :
        \E r \in {test_match(OB, price, oc) : oc \in OverflowChecks} : Return(r)

Done ==
    /\ Running
    /\ op' = "done"
    /\ \E price \in Prices, id \in Ids :
        \E r \in {done(OB, price, id, oc) : oc \in OverflowChecks} : Return(r)

Change ==
    /\ Running
    /\ op' = "change"
    /\ \E price \in Prices, new_size \in {0} \cup Sizes, id \in Ids :
        \E r \in {change(OB, price, new_size, id, oc) : oc \in OverflowChecks} : Return(r)

Reload ==
    /\ Running
    /\ op' = "reload"
    /\ \E bids \in BidLists, asks \in AskLists :
        Return(reload(OB, bids, asks))

Next == Open \/ Match \/ TestMatch \/ Done \/ Change \/ Reload

Spec == Init /\ [][Next]_vars

\* ------------------------------------------- state machine of the snapshots
\* A program that only reloads, from snapshots of up to MaxSnap records: one
\* price per level and one past the end of the grid, the k-th bid with size
\* k and id 2k - 1, the k-th ask with size k and id 2k.
SnapPrices == {PriceOf(i) : i \in 0..MAX_SIZE}

SnapBids(prices) ==
    [k \in 1..Len(prices) |-> [price |-> prices[k], size |-> k, id |-> 2 * k - 1]]

SnapAsks(prices) ==
    [k \in 1..Len(prices) |-> [price |-> prices[k], size |-> k, id |-> 2 * k]]

\* Pairs <<bids, asks>> of MaxSnap records at most.
Snapshots ==
    UNION {UNION {{<<SnapBids(b), SnapAsks(a)>> :
                        b \in [1..nb -> SnapPrices], a \in [1..na -> SnapPrices]} :
                  na \in 0..(MaxSnap - nb)} :
           nb \in 0..MaxSnap}

SnapReload ==
    /\ Running
    /\ op' = "reload"
    /\ \E s \in Snapshots :
            Return(reload(OB, s[1], s[2]))

NextReload == SnapReload

SpecReload == Init /\ [][NextReload]_vars

\* ------------------------------------------------------------ properties
Occupied(i) == i \in Levels /\ book[i] # <<>>

\* Side membership is positional: a level at or below bid is a buy level, a
\* level at or above ask is a sell level.
BuyOccupied == \E i \in Levels : i <= bid /\ book[i] # <<>>
SellOccupied == \E i \in Levels : i >= ask /\ book[i] # <<>>

\* Highest occupied level below p, lowest occupied level above p.
Below(p) == {j \in Levels : j < p /\ book[j] # <<>>}
Above(p) == {j \in Levels : j > p /\ book[j] # <<>>}
MaxOf(S) == CHOOSE x \in S : \A y \in S : y <= x
MinOf(S) == CHOOSE x \in S : \A y \in S : x <= y

HasId(q, id) == \E k \in 1..Len(q) : q[k][2] = id
IdsOf(q) == [k \in 1..Len(q) |-> q[k][2]]

\* a is b with some elements deleted, the others in their order.
RECURSIVE IsSubseq(_, _)
IsSubseq(a, b) ==
    IF a = <<>> THEN TRUE
    ELSE IF b = <<>> THEN FALSE
    ELSE IF Head(a) = Head(b) THEN IsSubseq(Tail(a), Tail(b))
    ELSE IsSubseq(a, Tail(b))

\* C1: after every call that returned, if a buy level and a sell level are
\* occupied then bid < ask.
C1_NoCross == Running => ((BuyOccupied /\ SellOccupied) => bid < ask)

\* An open has just put the second side into the book, above a bid that is
\* not at the sentinel index.
C1_Witness ==
    /\ op = "open" /\ res = "Ok" /\ eff.cursor
    /\ bid > USIZE_MIN /\ BuyOccupied /\ SellOccupied

\* C2: after every call that returned, bid is the empty-side sentinel or the
\* index of a non-empty level, and so is ask.
C2_PointerAccuracy ==
    Running =>
        /\ bid = USIZE_MIN \/ Occupied(bid)
        /\ ask = USIZE_MAX \/ Occupied(ask)

\* A done has emptied a touch level and the repair has moved the cursor to
\* an occupied level.
C2_Witness ==
    /\ op = "done" /\ res = "Ok" /\ eff.queue /\ eff.cursor
    /\ Occupied(bid) /\ \E i \in Levels : i > bid /\ book[i] = <<>>

\* C3: a match on the head entry with a size below the head's size returns
\* Ok, keeps the entry at the head and stores its size reduced by size.
C3_PartialFillReducesSize ==
    Running =>
        \A price \in Prices, size \in Sizes, id \in Ids, oc \in OverflowChecks :
            LET g == get_idx(price)
                p == g.idx
                r == _match(OB, price, size, id, oc)
            IN  (~g.err /\ book[p] # <<>> /\ book[p][1][2] = id
                        /\ size < book[p][1][1])
                => /\ r.res = "Ok"
                   /\ r.ob.book =
                        [book EXCEPT ![p][1] = <<book[p][1][1] - size, id>>]
                   /\ r.ob.bid = bid /\ r.ob.ask = ask

\* C4: a match on an empty level, or with an id that is not the id of the
\* level's head entry, returns Err(MatchUuid) and changes no queue and no
\* cursor.
C4_MatchMismatch ==
    Running =>
        \A price \in Prices, size \in Sizes, id \in Ids, oc \in OverflowChecks :
            LET g == get_idx(price)
                p == g.idx
                r == _match(OB, price, size, id, oc)
            IN  (~g.err /\ (book[p] = <<>> \/ book[p][1][2] # id))
                => r.res = "MatchUuid" /\ r.ob = OB

\* A match has just been refused while a queue holds two entries with
\* different ids, so that the second id sits behind the head.
C4_Witness ==
    /\ op = "match" /\ res = "MatchUuid"
    /\ \E i \in Levels : Len(book[i]) >= 2 /\ book[i][1][2] # book[i][2][2]

\* C5: when a done, a full match or a change to zero empties the level bid
\* (resp. ask) points to and no level further out is occupied, the call
\* returns Ok with the cursor at the empty-side sentinel.
C5_RepairStopsAtBoundary ==
    Running =>
        \A price \in Prices, id \in Ids, oc \in OverflowChecks :
            LET g == get_idx(price)
                p == g.idx
                lastBid == p = bid /\ Below(p) = {}
                lastAsk == p = ask /\ Above(p) = {}
                Repaired(r) ==
                    /\ r.res = "Ok"
                    /\ lastBid => r.ob.bid = USIZE_MIN
                    /\ lastAsk => r.ob.ask = USIZE_MAX
            IN  (~g.err /\ book[p] # <<>> /\ (lastBid \/ lastAsk))
                => /\ Retain(book[p], id) = <<>>
                        => /\ Repaired(done(OB, price, id, oc))
                           /\ Repaired(change(OB, price, 0, id, oc))
                   /\ (Len(book[p]) = 1 /\ book[p][1][2] = id)
                        => Repaired(_match(OB, price, book[p][1][1], id, oc))

\* C6: an open that would cross the book (a Buy at or above the lowest
\* occupied sell level, a Sell at or below the highest occupied buy level)
\* returns the error CrossedBook.
C6_CrossingOpenReturnsError ==
    Running =>
        \A side \in Sides, rec \in Records :
            LET g == get_idx(rec.price)
                p == g.idx
                r == open(OB, side, rec)
            IN  (~g.err /\ ( (side = "Buy" /\ Occupied(ask) /\ p >= ask)
                          \/ (side = "Sell" /\ Occupied(bid) /\ p <= bid)))
                => r.res = "CrossedBook"

\* C7: a match on the head entry with the head's size removes that entry and
\* nothing else; if other entries stay at the level both cursors keep their
\* values; if it was the only entry of the bid level and a lower level is
\* occupied, bid becomes the highest occupied level below and ask keeps its
\* value; symmetrically for the ask level.
C7_FullFillMovesTouch ==
    Running =>
        \A price \in Prices, size \in Sizes, id \in Ids, oc \in OverflowChecks :
            LET g == get_idx(price)
                p == g.idx
                r == _match(OB, price, size, id, oc)
            IN  (~g.err /\ book[p] # <<>> /\ book[p][1][2] = id
                        /\ size = book[p][1][1])
                => /\ r.ob.book = [book EXCEPT ![p] = Tail(@)]
                   /\ Len(book[p]) > 1
                        => r.res = "Ok" /\ r.ob.bid = bid /\ r.ob.ask = ask
                   /\ (Len(book[p]) = 1 /\ p = bid /\ Below(p) # {})
                        => /\ r.res = "Ok"
                           /\ r.ob.bid = MaxOf(Below(p))
                           /\ r.ob.ask = ask
                   /\ (Len(book[p]) = 1 /\ p = ask /\ Above(p) # {})
                        => /\ r.res = "Ok"
                           /\ r.ob.ask = MinOf(Above(p))
                           /\ r.ob.bid = bid

\* A full fill has just emptied the bid level and the repair has moved bid
\* down to an occupied level, every level above it being empty.
C7_Witness ==
    /\ op = "match" /\ res = "Ok" /\ eff.queue /\ eff.cursor
    /\ Occupied(bid) /\ Above(bid) = {} /\ ask = USIZE_MAX

\* The entries of a list of records, in the order of the list.
EntriesOf(recs) == [k \in 1..Len(recs) |-> <<recs[k].size, recs[k].id>>]

\* reload leaves in every level entries of the bids followed by entries of
\* the asks, in the order of the two lists.
ReloadOrder ==
    Running =>
        \A bids \in BidLists, asks \in AskLists :
            LET r == reload(OB, bids, asks)
                entries == EntriesOf(bids) \o EntriesOf(asks)
            IN  \A i \in Levels : IsSubseq(r.ob.book[i], entries)

\* What one call may do to the queue of one level: open appends at the
\* tail, a match takes the head or nothing, done and change to zero delete
\* entries, change keeps every id in its place.
FifoStep ==
    \A i \in Levels :
        /\ op' = "open" =>
              \/ book'[i] = book[i]
              \/ /\ Len(book'[i]) = Len(book[i]) + 1
                 /\ SubSeq(book'[i], 1, Len(book[i])) = book[i]
        /\ op' \in {"match", "test_match"} =>
              \/ book'[i] = book[i]
              \/ book[i] # <<>> /\ book'[i] = Tail(book[i])
        /\ op' = "done" => IsSubseq(book'[i], book[i])
        /\ op' = "change" =>
              \/ IdsOf(book'[i]) = IdsOf(book[i])
              \/ IsSubseq(book'[i], book[i])

\* C8: every call keeps the arrival order of the entries of every level: a
\* new entry goes to the tail, a match touches the head only, and the
\* entries that stay keep their relative order.
C8_Fifo == [][FifoStep]_vars /\ []ReloadOrder

\* An open has just queued an entry behind an earlier one.
C8_Witness ==
    /\ op = "open" /\ res = "Ok"
    /\ \E i \in Levels : Len(book[i]) >= 2 /\ book[i][1] # book[i][2]

\* C9: a done for an id that no entry of the level carries returns Ok and
\* changes no queue and no cursor.
C9_CancelUnknownNeverFails ==
    Running =>
        \A price \in Prices, id \in Ids, oc \in OverflowChecks :
            LET g == get_idx(price)
                p == g.idx
                r == done(OB, price, id, oc)
            IN  (~g.err /\ ~HasId(book[p], id)) => r.res = "Ok" /\ r.ob = OB

\* C10: done(price, id) called twice: both calls return Ok and the second
\* leaves the book as the first left it.
C10_IdempotentCancel ==
    Running =>
        \A price \in Prices, id \in Ids, oc \in OverflowChecks :
            LET g == get_idx(price)
                r1 == done(OB, price, id, oc)
                r2 == done(r1.ob, price, id, oc)
            IN  ~g.err => r1.res = "Ok" /\ r2.res = "Ok" /\ r2.ob = r1.ob

\* Number of entries of q that carry id.
CountId(q, id) == Cardinality({k \in 1..Len(q) : q[k][2] = id})

\* C11: done(price, id) takes out of the level at price the entries that
\* carry id and no other: what stays is the old queue with exactly those
\* entries deleted, in the old order; every other level is unchanged; and
\* when the call returns, a cursor has moved only if it pointed to the level
\* at price and the call took the last entries out of that level.
C11_CancelRemovesOnlyNamed ==
    Running =>
        \A price \in Prices, id \in Ids, oc \in OverflowChecks :
            LET g == get_idx(price)
                p == g.idx
                r == done(OB, price, id, oc)
                emptied == book[p] # <<>> /\ r.ob.book[p] = <<>>
            IN  ~g.err
                => /\ \A i \in Levels \ {p} : r.ob.book[i] = book[i]
                   /\ IsSubseq(r.ob.book[p], book[p])
                   /\ ~HasId(r.ob.book[p], id)
                   /\ Len(r.ob.book[p]) = Len(book[p]) - CountId(book[p], id)
                   /\ r.res = "Ok" =>
                        /\ r.ob.bid # bid => p = bid /\ emptied
                        /\ r.ob.ask # ask => p = ask /\ emptied

\* A done has just taken one of two entries out of the level bid points to,
\* and no cursor has moved.
C11_Witness ==
    /\ op = "done" /\ res = "Ok" /\ eff.queue /\ ~eff.cursor
    /\ Occupied(bid)

\* C12: open, match, done and change called with a price whose index is
\* MAX_SIZE or more return Err(Range) and change no queue and no cursor.
C12_OutOfRangeRejected ==
    Running =>
        \A price \in Prices :
            price \div PriceUnit >= MAX_SIZE
            => /\ \A side \in Sides, size \in Sizes, id \in Ids :
                    LET r == open(OB, side,
                                  [price |-> price, size |-> size, id |-> id])
                    IN  r.res = "Range" /\ r.ob = OB
               /\ \A size \in Sizes \cup {0}, id \in Ids,
                     oc \in OverflowChecks :
                    /\ _match(OB, price, size, id, oc) = [ob |-> OB, res |-> "Range"]
                    /\ done(OB, price, id, oc) = [ob |-> OB, res |-> "Range"]
                    /\ change(OB, price, size, id, oc) = [ob |-> OB, res |-> "Range"]

\* A call has just been refused for its price while orders rest in the book.
C12_Witness ==
    /\ op \in {"open", "match", "done", "change"} /\ res = "Range"
    /\ ~eff.queue /\ ~eff.cursor /\ Resting(book) > 0

IdxOf(recs) == {get_idx(recs[k].price).idx : k \in 1..Len(recs)}

\* The entries of the records of recs whose price falls on level i, in the
\* order of recs.
LevelEntries(recs, i) ==
    EntriesOf(SelectSeq(recs, LAMBDA rec : get_idx(rec.price).idx = i))

usize_sub(a, b, overflow_checks) ==
    IF a < b /\ overflow_checks THEN [panic |-> TRUE, val |-> a]
    ELSE [panic |-> FALSE, val |-> Wrap(a - b)]

usize_add(a, b, overflow_checks) ==
    IF a + b > USIZE_MAX /\ overflow_checks THEN [panic |-> TRUE, val |-> a]
    ELSE [panic |-> FALSE, val |-> Wrap(a + b)]

\* x.iter().map(|x| x.0).sum()
RECURSIVE SumSizes(_)
SumSizes(q) == IF q = <<>> THEN 0 ELSE Head(q)[1] + SumSizes(Tail(q))

\* OrderBook::side on the range lo..=hi.  Slicing self.book panics when hi
\* is usize::MAX, when lo is past hi + 1 and when hi is not in the vector.
side(ob, lo, hi) ==
    IF hi = USIZE_MAX \/ lo > hi + 1 \/ hi + 1 > MAX_SIZE
    THEN [res |-> "Panic", val |-> <<>>]
    ELSE [res |-> "Ok",
          val |-> [k \in 1..(hi + 1 - lo) |-> SumSizes(ob.book[lo + k - 1])]]

\* OrderBook::bids: the range starts at (self.bid - sz) + 1.
bids(ob, sz, overflow_checks) ==
    LET d == usize_sub(ob.bid, sz, overflow_checks)
        lo == usize_add(d.val, 1, overflow_checks)
    IN  IF d.panic \/ lo.panic THEN [res |-> "Panic", val |-> <<>>]
        ELSE side(ob, lo.val, ob.bid)

\* OrderBook::asks: the range ends at (self.ask + sz) - 1.
asks(ob, sz, overflow_checks) ==
    LET u == usize_add(ob.ask, sz, overflow_checks)
        hi == usize_sub(u.val, 1, overflow_checks)
    IN  IF u.panic \/ hi.panic THEN [res |-> "Panic", val |-> <<>>]
        ELSE side(ob, ob.ask, hi.val)

\* The depths asked of bids and asks.
Depths == 1..MAX_SIZE

\* C14: with both sides occupied and n >= 1, if the levels bid - n + 1 .. bid
\* are in the grid then bids(n) returns the n sums of sizes of those levels,
\* touch last, and if the levels ask .. ask + n - 1 are in the grid then
\* asks(n) returns the n sums of sizes of those levels, touch first.
C14_DepthAggregation ==
    (Running /\ BuyOccupied /\ SellOccupied) =>
            \A n \in Depths, oc \in OverflowChecks :
                /\ bid - n + 1 >= 0 =>
                        bids(OB, n, oc) =
                            [res |-> "Ok",
                             val |-> [k \in 1..n |-> SumSizes(book[bid - n + k])]]
                /\ ask + n - 1 < MAX_SIZE =>
                        asks(OB, n, oc) =
                            [res |-> "Ok",
                             val |-> [k \in 1..n |-> SumSizes(book[ask + k - 1])]]

\* The same with the bids window starting above index 0 when overflow checks
\* are on.
DepthAggregationAboveZero ==
    (Running /\ BuyOccupied /\ SellOccupied) =>
            \A n \in Depths, oc \in OverflowChecks :
                /\ (bid - n + 1 >= 0 /\ (oc => bid - n >= 0)) =>
                        bids(OB, n, oc) =
                            [res |-> "Ok",
                             val |-> [k \in 1..n |-> SumSizes(book[bid - n + k])]]
                /\ ask + n - 1 < MAX_SIZE =>
                        asks(OB, n, oc) =
                            [res |-> "Ok",
                             val |-> [k \in 1..n |-> SumSizes(book[ask + k - 1])]]

\* C15: change(price, new_size, id) with new_size # 0 returns Ok, gives the
\* size new_size to the entries of the level that carry id and changes
\* nothing else: the ids of the level stay in their places, the other
\* entries keep their sizes, the other levels and both cursors stay; with
\* no entry carrying id the whole state stays.
C15_ModifyKeepsPriority ==
    Running =>
        \A price \in Prices, new_size \in Sizes \ {0}, id \in Ids,
           oc \in OverflowChecks :
            LET g == get_idx(price)
                p == g.idx
                r == change(OB, price, new_size, id, oc)
            IN  ~g.err
                => /\ r.res = "Ok"
                   /\ r.ob.bid = bid /\ r.ob.ask = ask
                   /\ \A i \in Levels \ {p} : r.ob.book[i] = book[i]
                   /\ IdsOf(r.ob.book[p]) = IdsOf(book[p])
                   /\ \A k \in 1..Len(book[p]) :
                        r.ob.book[p][k][1] =
                            IF book[p][k][2] = id THEN new_size
                            ELSE book[p][k][1]
                   /\ ~HasId(book[p], id) => r.ob = OB

\* A change has just given a new size to one of two entries of a level,
\* the two still queued with their different ids.
C15_Witness ==
    /\ op = "change" /\ res = "Ok" /\ eff.queue /\ ~eff.cursor
    /\ \E i \in Levels : Len(book[i]) >= 2 /\ book[i][1][2] # book[i][2][2]

\* C16: after every call that returned, bid is the empty-bid value exactly
\* when no buy level is occupied and ask is the empty-ask value exactly when
\* no sell level is occupied.  (The empty-bid value of the code, USIZE_MIN,
\* is the grid index 0.)
C16_SentinelUnambiguous ==
    Running =>
        /\ bid = USIZE_MIN <=> ~BuyOccupied
        /\ ask = USIZE_MAX <=> ~SellOccupied

\* C17: an open whose price is in range and does not cross (a Buy below
\* every occupied sell level, a Sell above every occupied buy level) returns
\* Ok, puts (size, id) at the tail of the level of its price and leaves the
\* other entries and the other levels as they were; bid becomes that index
\* exactly when side = Buy and index > bid, ask exactly when side = Sell and
\* index < ask, and otherwise the cursors keep their values.
C17_OpenEffect ==
    Running =>
        \A sd \in Sides, rec \in Records :
            LET g == get_idx(rec.price)
                p == g.idx
                r == open(OB, sd, rec)
                crossing ==
                    \/ sd = "Buy" /\ Occupied(ask) /\ p >= ask
                    \/ sd = "Sell" /\ Occupied(bid) /\ p <= bid
            IN  (~g.err /\ ~crossing)
                => /\ r.res = "Ok"
                   /\ r.ob.book =
                         [book EXCEPT ![p] = Append(@, <<rec.size, rec.id>>)]
                   /\ r.ob.bid = IF sd = "Buy" /\ p > bid THEN p ELSE bid
                   /\ r.ob.ask = IF sd = "Sell" /\ p < ask THEN p ELSE ask

\* The effect stated by C17 holds of every open that returns Ok, and open
\* returns Ok exactly when the price is in range, a Buy is below ask and a
\* Sell is above bid.
OpenEffectWhenReturned ==
    Running =>
        \A sd \in Sides, rec \in Records :
            LET g == get_idx(rec.price)
                p == g.idx
                r == open(OB, sd, rec)
                fits == /\ ~g.err
                        /\ sd = "Buy" => p < ask
                        /\ sd = "Sell" => p > bid
            IN  /\ fits <=> r.res = "Ok"
                /\ r.res = "Ok" =>
                    /\ r.ob.book =
                          [book EXCEPT ![p] = Append(@, <<rec.size, rec.id>>)]
                    /\ r.ob.bid = IF sd = "Buy" /\ p > bid THEN p ELSE bid
                    /\ r.ob.ask = IF sd = "Sell" /\ p < ask THEN p ELSE ask

\* Position of the first record of recs whose price is out of range.
FirstOutOfRange(recs) ==
    MinOf({k \in 1..Len(recs) : get_idx(recs[k].price).err})

\* The book holds exactly the records of B \o A before position f, each at
\* the level of its price in input order, with bid the highest index of the
\* bids among them and ask the lowest index of the asks among them.
HoldsPrefix(o, B, A, f) ==
    LET preB == SubSeq(B, 1, IF f - 1 < Len(B) THEN f - 1 ELSE Len(B))
        preA == SubSeq(A, 1, f - 1 - Len(B))
    IN  /\ \A i \in Levels : o.book[i] = LevelEntries(preB \o preA, i)
        /\ o.bid = MaxOf(IdxOf(preB) \cup {USIZE_MIN})
        /\ o.ask = MinOf(IdxOf(preA) \cup {USIZE_MAX})

\* C18: a reload with a record whose price is out of range returns
\* Err(Range) and leaves in the book exactly the records before the first
\* such record, bids first and asks after them, in input order, with the
\* cursors where the opens of those records put them.
C18_FailedReloadPartial ==
    Running =>
        \A s \in Snapshots :
            LET B == s[1]
                A == s[2]
                r == reload(OB, B, A)
            IN  (\E i \in IdxOf(B \o A) : i >= MAX_SIZE)
                => /\ r.res = "Range"
                   /\ HoldsPrefix(r.ob, B, A, FirstOutOfRange(B \o A))

\* The same of the reloads that do not panic before they reach the record
\* that is out of range.
FailedReloadWhenReturned ==
    Running =>
        \A s \in Snapshots :
            LET B == s[1]
                A == s[2]
                r == reload(OB, B, A)
            IN  ((\E i \in IdxOf(B \o A) : i >= MAX_SIZE) /\ r.res # "Panic")
                => /\ r.res = "Range"
                   /\ HoldsPrefix(r.ob, B, A, FirstOutOfRange(B \o A))

\* C19: for every in-range price and every id, change(price, 0, id) returns
\* Ok and leaves the queues and the cursors that done(price, id) leaves.
C19_ModifyToZeroIsCancel ==
    Running =>
        \A price \in Prices, id \in Ids, oc \in OverflowChecks :
            LET c == change(OB, price, 0, id, oc)
                d == done(OB, price, id, oc)
            IN  ~get_idx(price).err => c.res = "Ok" /\ c.ob = d.ob

\* change(price, 0, id) ends as done(price, id) ends: the same queues and
\* cursors, Ok where done returns Ok, a panic where done panics.
ChangeZeroEndsAsDone ==
    Running =>
        \A price \in Prices, id \in Ids, oc \in OverflowChecks :
            ~get_idx(price).err =>
                change(OB, price, 0, id, oc) = done(OB, price, id, oc)

\* C20: after every call that returned, every occupied level is at or below
\* bid or at or above ask.
C20_EmptySpread ==
    Running => \A i \in Levels : book[i] # <<>> => (i <= bid \/ i >= ask)

\* Both sides hold orders and a level between the two cursors is empty.
C20_Witness ==
    /\ Running /\ op # "new" /\ Occupied(bid) /\ Occupied(ask)
    /\ \E i \in Levels : bid < i /\ i < ask /\ book[i] = <<>>

====
